---- MODULE Spec2Model ----
(***************************************************************************)
(* A model of the platformer core of library_of_babel: the Player of       *)
(* source/player.py, the MovingObject, LetterPickUp, Enemy and Worm of     *)
(* source/object_classes.py, and the GameWorld of source/game_world.py.    *)
(*                                                                         *)
(* Units.  Lengths are pixels (pygame.Rect holds integers), velocities are *)
(* pixels per second, and times are hundredths of a second: the float      *)
(* invincibility_time 0.7 is 70, a frame's delta 0.1 is 10.  The y axis    *)
(* points down, as in pygame.                                              *)
(***************************************************************************)
EXTENDS Integers, Sequences, FiniteSets, TLC

VARIABLES
    pc,                   \* position of the frame driver / of Player.update
    frame,                \* number of frames started
    keys,                 \* the pressed-keys snapshot of this frame
    delta,                \* this frame's delta (hundredths of a second)
    scan_i,               \* index of the for loop of Player.do_interaction
    state,                \* Player.state
    velocity,             \* MovingObject.velocity, [x, y]
    rect,                 \* the player's rectangle, [x, y, w, h]
    hitbox,               \* name of the active hitbox
    has_collided,         \* MovingObject.has_collided
    current_direction,    \* Player.current_direction
    letters_collected,    \* Player.letters_collected
    is_jump_unlocked,     \* Player.is_jump_unlocked
    is_crouch_unlocked,   \* Player.is_crouch_unlocked
    player_lives,         \* Player.player_lives
    bounce_velocity_x,    \* Player.bounce_velocity_x
    time_since_hit,       \* Player.time_since_hit
    active_animation,     \* Player.active_animation
    static_objects,       \* GameWorld.static_objects, a sequence of rectangles
    interactable_objects, \* GameWorld.interactable_objects, a sequence of objects
    events,               \* number of PLAYER_DIED events posted
    op,                   \* the operation the last step executed
    arg,                  \* the letter the last on_pickup_letter call was given
    ret,                  \* the last call's return value
    hit_calls,            \* on_hit_by_enemy calls made by the last step
    level_letters,        \* the letters of the level's LetterPickUp objects
    gravity,              \* MovingObject.gravity
    worm,                 \* a Worm: [rect, velocity, has_collided, gravity,
                          \* current_direction, distance]
    update_calls          \* the entities updated by the frame, in call order

vars == <<pc, frame, keys, delta, scan_i, state, velocity, rect, hitbox,
          has_collided, current_direction, letters_collected,
          is_jump_unlocked, is_crouch_unlocked, player_lives,
          bounce_velocity_x, time_since_hit, active_animation,
          static_objects, interactable_objects, events, op, arg, ret,
          hit_calls, level_letters, gravity, worm, update_calls>>

playerVars == <<state, velocity, rect, hitbox, has_collided,
                current_direction, letters_collected, is_jump_unlocked,
                is_crouch_unlocked, player_lives, bounce_velocity_x,
                time_since_hit, active_animation>>

(***************************************************************************)
(* Program constants.                                                      *)
(***************************************************************************)
speed_x == 70
jump_force == 400
invincibility_time == 70
MaxLetters == 5
KnockbackSpeed == 250
KnockbackUp == 300
StompBounce == 250
threshold == 5
GravityStep == 50
InitialLives == 3

(***************************************************************************)
(* Geometry.  A rectangle is [x, y, w, h] with integer fields, as          *)
(* pygame.Rect; a float handed to a Rect is truncated toward zero.         *)
(***************************************************************************)
Rectangle(px, py, pw, ph) == [x |-> px, y |-> py, w |-> pw, h |-> ph]

Left(r) == r.x
Right(r) == r.x + r.w
Top(r) == r.y
Bottom(r) == r.y + r.h

\* int(n / k) for k > 0: truncation toward zero
TruncDiv(n, k) == IF n >= 0 THEN n \div k ELSE -((-n) \div k)

\* velocity * delta as the integer a Rect method takes it for (delta is in
\* hundredths of a second)
Displacement(v, d) == TruncDiv(v * d, 100)

\* pygame.Rect.colliderect: the rectangles overlap in a region of positive
\* area; a rectangle of zero width or height collides with nothing
colliderect(a, b) ==
    /\ a.w > 0 /\ a.h > 0 /\ b.w > 0 /\ b.h > 0
    /\ Left(a) < Right(b)
    /\ Left(b) < Right(a)
    /\ Top(a) < Bottom(b)
    /\ Top(b) < Bottom(a)

\* pygame.Rect.move: a new rectangle, the receiver is not changed
move(r, dx, dy) == [r EXCEPT !.x = @ + dx, !.y = @ + dy]

\* MovingObject.does_collide(rect, objects)
does_collide(r, objects) ==
    \E i \in 1..Len(objects) : colliderect(r, objects[i])

\* faulty variant: the ground probe does not move the rectangle
is_grounded_NoProbe(r, objects) == does_collide(r, objects)

\* MovingObject.is_grounded(objects), for an entity whose rectangle is r
is_grounded(r, objects) == does_collide(move(r, 0, 1), objects)

(***************************************************************************)
(* MovingObject.update(delta, game_world) for an entity e = [rect,         *)
(* velocity, has_collided, gravity]; the result is the entity after the    *)
(* call.                                                                   *)
(***************************************************************************)
\* line 80: the conditional expression binds weaker than +, so the preview
\* is rect.move(velocity.x * delta + 1, 0) when velocity.x > 0 and
\* rect.move(-1, 0) otherwise
PreviewRectX(r, vx, d) ==
    IF vx > 0 THEN move(r, TruncDiv(vx * d + 100, 100), 0)
              ELSE move(r, -1, 0)

\* line 82: rect.x += velocity.x * delta, the float sum truncated by the Rect
AdvanceX(r, vx, d) == [r EXCEPT !.x = TruncDiv(r.x * 100 + vx * d, 100)]

\* lines 80-84
UpdateXAxis(e, d, statics) ==
    IF ~does_collide(PreviewRectX(e.rect, e.velocity.x, d), statics)
    THEN [e EXCEPT !.rect = AdvanceX(e.rect, e.velocity.x, d)]
    ELSE [e EXCEPT !.has_collided = TRUE]

\* lines 87-88: the gravity step
ApplyGravity(e, statics) ==
    IF ~is_grounded(e.rect, statics)
    THEN [e EXCEPT !.velocity.y = @ + GravityStep]
    ELSE e

\* lines 89-93
UpdateYAxis(e, d, statics) ==
    LET preview_rect_y == move(e.rect, 0, Displacement(e.velocity.y, d))
    IN  IF ~does_collide(preview_rect_y, statics)
        THEN [e EXCEPT !.rect = preview_rect_y]
        ELSE [e EXCEPT !.velocity.y = 0]

\* the x axis, then the gravity step, then the y axis, each on the entity
\* the part before it has left
MovingObject_update(e, d, statics) ==
    CHOOSE after \in
        { UpdateYAxis(g, d, statics) :
            g \in { ApplyGravity(x, statics) :
                      x \in { UpdateXAxis(e, d, statics) } } } : TRUE

\* the player as a MovingObject
PlayerEntity ==
    [rect |-> rect, velocity |-> velocity, has_collided |-> has_collided,
     gravity |-> gravity]

(***************************************************************************)
(* Worm, an Enemy that patrols.  A worm is [rect, velocity, has_collided,  *)
(* gravity, current_direction, distance], the distance in hundredths of a  *)
(* pixel (velocity times delta, without rounding).                         *)
(***************************************************************************)
WormSpeedX == 30
max_distance == 50

\* the bounding box of worm.png
WormSize == [w |-> 16, h |-> 8]

Abs(n) == IF n < 0 THEN -n ELSE n

\* Worm.__init__(position)
Worm(position) ==
    [rect |-> Rectangle(position.x, position.y, WormSize.w, WormSize.h),
     velocity |-> [x |-> 0, y |-> 0], has_collided |-> FALSE,
     gravity |-> TRUE, current_direction |-> 1, distance |-> 0]

\* faulty variant: the worm turns on the distance alone
WormTurns_DistanceOnly(w) == w.distance >= max_distance * 100

\* line 215: the worm turns
WormTurns(w) == w.distance >= max_distance * 100 \/ w.has_collided

\* Worm.update(delta, game_world): the worm after the call
Worm_update(w, d, statics) ==
    LET walking == [w EXCEPT !.velocity.x = w.current_direction * WormSpeedX]
        moved == MovingObject_update(walking, d, statics)
        travelled == IF ~moved.has_collided
                     THEN [moved EXCEPT
                             !.distance = @ + Abs(moved.velocity.x * d)]
                     ELSE moved
    IN  IF WormTurns(travelled)
        THEN [travelled EXCEPT !.current_direction = -@,
                               !.distance = 0,
                               !.has_collided = FALSE]
        ELSE travelled

\* where the level places its worm
WormStart == [x |-> 200, y |-> 92]

(***************************************************************************)
(* Letters.  str.upper() maps a lower-case letter to its capital and       *)
(* leaves every other character alone.                                     *)
(***************************************************************************)
\* the letter sets a level may offer; every behaviour draws from one of them
LevelLetterSets ==
    { {"J", "U", "M", "P", "D", "C", "K"},
      {"J", "U", "M", "P", "X", "p"},
      {"D", "U", "C", "K", "X"},
      {"B", "A", "E", "L", "X"} }

upper(c) ==
    CASE c = "p" -> "P"
      [] OTHER -> c

\* "".join(letters).upper(): the word as the sequence of its characters
JoinUpper(letters) == [i \in 1..Len(letters) |-> upper(letters[i])]

WordJUMP == <<"J", "U", "M", "P">>
WordDUCK == <<"D", "U", "C", "K">>
WordBABEL == <<"B", "A", "B", "E", "L">>

\* faulty variant: the capacity test off by one
AtCapacity_OffByOne(letters) == Len(letters) > MaxLetters

\* the guard of line 84
AtCapacity(letters) == Len(letters) >= MaxLetters

\* faulty variant: the word only has to end with JUMP
CompletesJump_Suffix(w) ==
    Len(w) >= 4 /\ SubSeq(w, Len(w) - 3, Len(w)) = WordJUMP

\* the `match word` of lines 91-99: does the word complete an unlock
CompletesJump(w) == w = WordJUMP
CompletesDuck(w) == w = WordDUCK
WordCompleted(w) == CompletesJump(w) \/ CompletesDuck(w)

\* The player as one value: the fields of the Player object, the number of
\* PLAYER_DIED events it has posted and the on_hit_by_enemy calls it received.
PlayerNow ==
    [state |-> state, velocity |-> velocity, rect |-> rect, hitbox |-> hitbox,
     has_collided |-> has_collided, current_direction |-> current_direction,
     letters_collected |-> letters_collected,
     is_jump_unlocked |-> is_jump_unlocked,
     is_crouch_unlocked |-> is_crouch_unlocked,
     player_lives |-> player_lives, bounce_velocity_x |-> bounce_velocity_x,
     time_since_hit |-> time_since_hit, active_animation |-> active_animation,
     events |-> events, hit_calls |-> 0]

\* the player's variables become the value p
PlayerBecomes(p) ==
    \E q \in {p} :
        /\ state' = q.state
        /\ velocity' = q.velocity
        /\ rect' = q.rect
        /\ hitbox' = q.hitbox
        /\ has_collided' = q.has_collided
        /\ current_direction' = q.current_direction
        /\ letters_collected' = q.letters_collected
        /\ is_jump_unlocked' = q.is_jump_unlocked
        /\ is_crouch_unlocked' = q.is_crouch_unlocked
        /\ player_lives' = q.player_lives
        /\ bounce_velocity_x' = q.bounce_velocity_x
        /\ time_since_hit' = q.time_since_hit
        /\ active_animation' = q.active_animation
        /\ events' = q.events
        /\ hit_calls' = q.hit_calls

\* Player.on_pickup_letter(letter): the player after the call
on_pickup_letter(p, letter) ==
    IF AtCapacity(p.letters_collected)
    THEN p
    ELSE LET appended == Append(p.letters_collected, letter)
             w == JoinUpper(appended)
         IN  [p EXCEPT
                !.is_jump_unlocked = (@ \/ CompletesJump(w)),
                !.is_crouch_unlocked = (@ \/ CompletesDuck(w)),
                !.letters_collected =
                    IF WordCompleted(w) THEN <<>> ELSE appended]

\* Player.on_pickup_letter(letter): the value the call returns
on_pickup_letter_result(p, letter) == ~AtCapacity(p.letters_collected)

(***************************************************************************)
(* Construction.                                                           *)
(***************************************************************************)
\* the sizes of the player's two hitboxes (the bounding boxes of
\* test_hitbox.png and test_hitbox_crouch.png)
HitboxSize(name) ==
    IF name = "crouch" THEN [w |-> 10, h |-> 10] ELSE [w |-> 10, h |-> 20]

\* Player.__init__(position), but for the position
PlayerConstructed ==
    /\ state = "IDLE"
    /\ velocity = [x |-> 0, y |-> 0]
    /\ hitbox = "default"
    /\ has_collided = FALSE
    /\ current_direction = 1
    /\ letters_collected = <<>>
    /\ player_lives = InitialLives
    /\ bounce_velocity_x = 0
    /\ time_since_hit = 0
    /\ active_animation = "idle"
    /\ gravity = TRUE

\* lines 42-43: no ability is unlocked at construction
NothingUnlocked ==
    /\ is_jump_unlocked = FALSE
    /\ is_crouch_unlocked = FALSE

HarnessInit ==
    /\ frame = 0
    /\ keys = {}
    /\ delta = 0
    /\ scan_i = 1
    /\ events = 0
    /\ op = "init"
    /\ arg = ""
    /\ ret = TRUE
    /\ hit_calls = 0
    /\ update_calls = <<>>

(***************************************************************************)
(* The player's hitboxes.  set_hitbox and try_set_hitbox are called by     *)
(* handle_movement and defined outside the files at hand; they follow the  *)
(* hitbox set of the design: the new rectangle keeps the top-left corner   *)
(* of the current one, and the guarded switch fails when the new rectangle *)
(* would overlap a static collider.                                        *)
(***************************************************************************)
HitboxRect(p, name) ==
    Rectangle(p.rect.x, p.rect.y, HitboxSize(name).w, HitboxSize(name).h)

set_hitbox(p, name) == [p EXCEPT !.hitbox = name, !.rect = HitboxRect(p, name)]

try_set_hitbox_result(p, name, statics) ==
    ~does_collide(HitboxRect(p, name), statics)

try_set_hitbox(p, name, statics) ==
    IF try_set_hitbox_result(p, name, statics) THEN set_hitbox(p, name) ELSE p

\* check_is_grounded(static_objects): the one-pixel probe of is_grounded
check_is_grounded(p, statics) == is_grounded(p.rect, statics)

(***************************************************************************)
(* Player: death, hits, state changes.                                     *)
(***************************************************************************)
\* Player.on_state_changed(state): the animation of the new state
AnimationOf(s) ==
    CASE s = "FALL" -> "fall"
      [] s = "JUMP" -> "jump_up"
      [] s = "RUN" -> "run"
      [] OTHER -> "idle"

on_state_changed(p, s) == [p EXCEPT !.active_animation = AnimationOf(s)]

\* Player.on_player_death(reason)
on_player_death(p) ==
    LET dead == [p EXCEPT !.player_lives = 0, !.state = "DEAD"]
    IN  [on_state_changed(dead, "DEAD") EXCEPT !.events = @ + 1]

\* Player.on_fell_out_of_bounds()
on_fell_out_of_bounds(p) == on_player_death(p)

\* line 67: the guard of on_hit_by_enemy
HitIsLive(p) == p.time_since_hit # 0

\* faulty variant: a hit costs a life
on_hit_by_enemy_Decrement(p, direction) ==
    LET called == [p EXCEPT !.hit_calls = @ + 1]
    IN  IF HitIsLive(called)
        THEN LET knocked == [called EXCEPT
                                !.bounce_velocity_x = direction * KnockbackSpeed,
                                !.velocity.y = -KnockbackUp]
             IN  IF knocked.player_lives > 1
                 THEN [knocked EXCEPT !.player_lives = @ - 1]
                 ELSE on_player_death(knocked)
        ELSE called

\* Player.on_hit_by_enemy(enemy, direction)
on_hit_by_enemy(p, direction) ==
    LET called == [p EXCEPT !.hit_calls = @ + 1]
    IN  IF HitIsLive(called)
        THEN LET knocked == [called EXCEPT
                                !.bounce_velocity_x = direction * KnockbackSpeed,
                                !.velocity.y = -KnockbackUp]
             IN  IF knocked.player_lives > 1
                 THEN knocked
                 ELSE on_player_death(knocked)
        ELSE called

(***************************************************************************)
(* Player.handle_movement(keys, game_world).  A snapshot is the set of the *)
(* logical keys held: "left" is K_a or K_LEFT, "right" K_d or K_RIGHT,      *)
(* "jump" K_SPACE, K_w or K_UP, "crouch" K_LCTRL, K_s or K_DOWN.           *)
(***************************************************************************)
\* faulty variant: handle_movement without the early return
IsDead_Never(p) == FALSE

\* lines 130-131
IsDead(p) == p.state = "DEAD"

\* lines 136-146: the horizontal input
HorizontalInput(p, ks, grounded) ==
    IF "left" \in ks
    THEN [p EXCEPT !.velocity.x = -speed_x, !.current_direction = -1]
    ELSE IF "right" \in ks
    THEN [p EXCEPT !.velocity.x = speed_x, !.current_direction = 1]
    ELSE IF grounded
    THEN [p EXCEPT !.velocity.x = 0]
    ELSE p

\* lines 133-146: new_state after the horizontal input
HorizontalState(p, ks, grounded) ==
    IF "left" \in ks \/ "right" \in ks THEN "RUN"
    ELSE IF grounded THEN "IDLE"
    ELSE p.state

\* faulty variant: the jump is not gated by the ground
JumpsNow_Airborne(p, ks, grounded) == p.is_jump_unlocked /\ "jump" \in ks

\* line 149 under line 148
JumpsNow(p, ks, grounded) == grounded /\ p.is_jump_unlocked /\ "jump" \in ks

\* line 152 under line 148
DucksNow(p, ks, grounded) ==
    grounded /\ ~JumpsNow(p, ks, grounded)
             /\ p.is_crouch_unlocked /\ "crouch" \in ks

\* lines 148-157: new_state after the vertical part
VerticalState(p, ks, grounded, s) ==
    IF grounded
    THEN IF JumpsNow(p, ks, grounded) THEN "JUMP"
         ELSE IF DucksNow(p, ks, grounded) THEN "DUCK"
         ELSE s
    ELSE IF p.velocity.y <= 0 THEN "JUMP" ELSE "FALL"

\* lines 133-157: new_state
NewState(p, ks, grounded) ==
    VerticalState(p, ks, grounded, HorizontalState(p, ks, grounded))

\* lines 136-151: the player after the velocity assignments
AfterInput(p, ks, grounded) ==
    LET h == HorizontalInput(p, ks, grounded)
    IN  IF JumpsNow(p, ks, grounded)
        THEN [h EXCEPT !.velocity.y = -jump_force]
        ELSE h

\* faulty variant: the switch back to the standing hitbox is not guarded
ChangeState_Unguarded(p, new_state, statics) ==
    LET crouched == IF p.state # "DUCK" /\ new_state = "DUCK"
                    THEN set_hitbox(p, "crouch")
                    ELSE p
        stood == IF p.state = "DUCK" /\ new_state # "DUCK"
                 THEN set_hitbox(crouched, "default")
                 ELSE crouched
    IN  IF new_state # p.state
        THEN on_state_changed([stood EXCEPT !.state = new_state], new_state)
        ELSE stood

\* lines 159-169: the hitbox switches and the state change
ChangeState(p, new_state, statics) ==
    LET crouched == IF p.state # "DUCK" /\ new_state = "DUCK"
                    THEN set_hitbox(p, "crouch")
                    ELSE p
        leaving == p.state = "DUCK" /\ new_state # "DUCK"
        blocked == leaving /\ ~try_set_hitbox_result(crouched, "default", statics)
        stood == IF leaving
                 THEN try_set_hitbox(crouched, "default", statics)
                 ELSE crouched
        final_state == IF blocked THEN "DUCK" ELSE new_state
    IN  IF final_state # p.state
        THEN on_state_changed([stood EXCEPT !.state = final_state], final_state)
        ELSE stood

handle_movement(p, ks, statics) ==
    IF IsDead(p)
    THEN p
    ELSE LET grounded == check_is_grounded(p, statics)
         IN  ChangeState(AfterInput(p, ks, grounded),
                         NewState(p, ks, grounded), statics)

(***************************************************************************)
(* Interactable objects: [id, kind, rect, letter, current_direction].      *)
(***************************************************************************)
\* list.remove(o): the first element equal to o is taken out
Remove(list, o) ==
    LET k == CHOOSE i \in 1..Len(list) :
                 list[i] = o /\ \A j \in 1..(i - 1) : list[j] # o
    IN  [i \in 1..(Len(list) - 1) |-> IF i < k THEN list[i] ELSE list[i + 1]]

\* faulty variant: the stomp test without the velocity
IsStomp_AnyVelocity(p, o) == Bottom(p.rect) <= Top(o.rect) + threshold

\* line 188: the stomp condition of Enemy.on_collide
IsStomp(p, o) ==
    p.velocity.y < 0 /\ Bottom(p.rect) <= Top(o.rect) + threshold

\* Enemy.on_collide(player, game_world): the player after the call
Enemy_on_collide(p, o) ==
    IF IsStomp(p, o)
    THEN [p EXCEPT !.velocity = [x |-> 0, y |-> -StompBounce],
                   !.bounce_velocity_x = 0]
    ELSE on_hit_by_enemy(p, o.current_direction)

\* Enemy.on_collide(player, game_world): the interactable list after the call
Enemy_on_collide_list(p, o, list) ==
    IF IsStomp(p, o) THEN Remove(list, o) ELSE list

\* LetterPickUp.on_collide(player, game_world)
LetterPickUp_on_collide(p, o) == on_pickup_letter(p, o.letter)

\* faulty variant: a pickup whose letter is refused stays in the world
LetterPickUp_on_collide_list_IfAccepted(p, o, list) ==
    IF AtCapacity(p.letters_collected) THEN list ELSE Remove(list, o)

LetterPickUp_on_collide_list(p, o, list) == Remove(list, o)

\* o.on_collide(player, game_world), dispatched on the class of o
on_collide(p, o) ==
    IF o.kind = "enemy" THEN Enemy_on_collide(p, o)
    ELSE LetterPickUp_on_collide(p, o)

on_collide_list(p, o, list) ==
    IF o.kind = "enemy" THEN Enemy_on_collide_list(p, o, list)
    ELSE LetterPickUp_on_collide_list(p, o, list)

(***************************************************************************)
(* The letter specification: a freshly constructed player and any sequence *)
(* of on_pickup_letter calls.                                              *)
(***************************************************************************)
InitLetters ==
    /\ PlayerConstructed
    /\ NothingUnlocked
    /\ HarnessInit
    /\ pc = "frame"
    /\ rect = Rectangle(100, 80, 10, 20)
    /\ static_objects = <<>>
    /\ interactable_objects = <<>>
    /\ level_letters \in LevelLetterSets
    /\ worm = Worm(WormStart)

PickupCall ==
    /\ \E letter \in level_letters :
          /\ PlayerBecomes(on_pickup_letter(PlayerNow, letter))
          /\ ret' = on_pickup_letter_result(PlayerNow, letter)
          /\ arg' = letter
    /\ op' = "on_pickup_letter"
    /\ UNCHANGED <<pc, frame, keys, delta, scan_i, static_objects,
                   interactable_objects, level_letters,
                   gravity, worm, update_calls>>

NextLetters == PickupCall

SpecLetters == InitLetters /\ [][NextLetters]_vars

(***************************************************************************)
(* The physics specification: an entity near a single static collider,     *)
(* with a velocity along one axis, on which MovingObject.update and        *)
(* is_grounded are called.                                                 *)
(***************************************************************************)
MaxPhysSteps == 2

PhysColliders ==
    { Rectangle(40, 60, 40, 10),      \* a block below / beside the entity
      Rectangle(40, 20, 10, 30) }     \* a pillar

\* the static lists: none, one or two colliders
PhysWorlds ==
    {<<>>} \cup {<<c>> : c \in PhysColliders}
           \cup {<<c, d>> : c \in PhysColliders, d \in PhysColliders}

PhysVelocities ==
    { [x |-> 0, y |-> 0], [x |-> -70, y |-> 0], [x |-> 70, y |-> 0],
      [x |-> 0, y |-> -300], [x |-> 0, y |-> 100] }

PhysDeltas == {0, 10, 20}

InitPhys ==
    /\ HarnessInit
    /\ pc = "frame"
    /\ state = "IDLE" /\ hitbox = "default" /\ has_collided = FALSE
    /\ current_direction = 1 /\ letters_collected = <<>>
    /\ NothingUnlocked
    /\ player_lives = InitialLives /\ bounce_velocity_x = 0
    /\ time_since_hit = 0 /\ active_animation = "idle"
    /\ velocity \in PhysVelocities
    /\ \E px \in {30, 44, 50, 52, 57}, py \in {40, 48, 49, 50} :
          rect = Rectangle(px, py, 10, 10)
    /\ static_objects \in PhysWorlds
    /\ ~does_collide(rect, static_objects)
    /\ interactable_objects = <<>>
    /\ level_letters = {}
    /\ gravity \in BOOLEAN
    /\ worm = Worm(WormStart)

\* a call of MovingObject.update(delta, game_world) on the entity
UpdateCall ==
    /\ frame < MaxPhysSteps
    /\ \E d \in PhysDeltas :
          LET e == MovingObject_update(PlayerEntity, d, static_objects)
          IN  /\ rect' = e.rect
              /\ velocity' = e.velocity
              /\ has_collided' = e.has_collided
              /\ delta' = d
    /\ frame' = frame + 1
    /\ op' = "MovingObject.update"
    /\ UNCHANGED <<pc, keys, scan_i, state, hitbox, current_direction,
                   letters_collected, is_jump_unlocked, is_crouch_unlocked,
                   player_lives, bounce_velocity_x, time_since_hit,
                   active_animation, static_objects, interactable_objects,
                   events, arg, ret, hit_calls, level_letters,
                   gravity, worm, update_calls>>

\* a call of MovingObject.is_grounded(objects) on the entity
GroundedCall ==
    /\ ret' = is_grounded(rect, static_objects)
    /\ op' = "is_grounded"
    /\ UNCHANGED <<pc, frame, keys, delta, scan_i, playerVars, static_objects,
                   interactable_objects, events, arg, hit_calls, level_letters,
                   gravity, worm, update_calls>>

NextPhys == UpdateCall \/ GroundedCall

SpecPhys == InitPhys /\ [][NextPhys]_vars

(***************************************************************************)
(* The frame specification: the player in a small level, driven frame by   *)
(* frame.  Player.update runs as its four parts in order: the interaction  *)
(* scan (one step per loop iteration), handle_movement, the invincibility  *)
(* timer, and MovingObject.update.                                         *)
(***************************************************************************)
MaxFrames == 3
MaxDeathEvents == 2

KeySnapshots ==
    { {}, {"left"}, {"right"}, {"jump"}, {"crouch"}, {"left", "jump"},
      {"left", "right"} }

Deltas == {10, 40}

\* the level: a floor and a wall; a letter and an enemy
LevelStatics == << Rectangle(0, 100, 300, 20), Rectangle(130, 60, 20, 40) >>

LevelInteractables ==
    << [id |-> 1, kind |-> "letter", rect |-> Rectangle(95, 85, 8, 8),
        letter |-> "J", current_direction |-> 1],
       [id |-> 2, kind |-> "enemy", rect |-> Rectangle(105, 56, 10, 44),
        letter |-> "", current_direction |-> 1] >>

\* where the level places the player: on the floor touching the letter and
\* the enemy, or in the air above the enemy
StartPositions == { [x |-> 100, y |-> 80], [x |-> 105, y |-> 32] }

Init ==
    /\ PlayerConstructed
    /\ HarnessInit
    /\ pc = "frame"
    /\ is_jump_unlocked \in BOOLEAN
    /\ is_crouch_unlocked \in BOOLEAN
    /\ \E pos \in StartPositions :
          rect = Rectangle(pos.x, pos.y, HitboxSize("default").w,
                           HitboxSize("default").h)
    /\ static_objects = LevelStatics
    /\ interactable_objects = LevelInteractables
    /\ level_letters = {}
    /\ worm = Worm(WormStart)

\* the entity the world calls the player
PlayerId == 0

\* GameWorld.do_updates(delta): the entities on which it calls update, in
\* call order
do_updates == <<PlayerId>>

\* the driver starts a frame: Player.update(delta, game_world) is entered
\* with the keys of this frame
FrameStart ==
    /\ pc = "frame"
    /\ frame < MaxFrames
    /\ \E ks \in KeySnapshots, d \in Deltas :
          /\ keys' = ks
          /\ delta' = d
    /\ frame' = frame + 1
    /\ scan_i' = 1
    /\ pc' = IF Len(interactable_objects) = 0 THEN "move" ELSE "scan"
    /\ op' = "update"
    /\ update_calls' = do_updates
    /\ PlayerBecomes(PlayerNow)
    /\ UNCHANGED <<static_objects, interactable_objects, arg, ret,
                   level_letters, gravity, worm>>

\* Player.do_interaction: one iteration of the for loop, which reads the
\* element at the loop index from the list as it is now
ScanStep ==
    /\ pc = "scan"
    /\ LET o == interactable_objects[scan_i]
           touched == colliderect(rect, o.rect)
           list == IF touched
                   THEN on_collide_list(PlayerNow, o, interactable_objects)
                   ELSE interactable_objects
       IN  /\ PlayerBecomes(IF touched THEN on_collide(PlayerNow, o)
                                       ELSE PlayerNow)
           /\ interactable_objects' = list
           /\ scan_i' = scan_i + 1
           /\ pc' = IF scan_i + 1 > Len(list) THEN "move" ELSE "scan"
           /\ op' = IF ~touched THEN "no_collision"
                    ELSE IF o.kind = "enemy" THEN "Enemy.on_collide"
                    ELSE "LetterPickUp.on_collide"
           /\ arg' = IF touched /\ o.kind = "letter" THEN o.letter ELSE arg
           /\ ret' = IF touched /\ o.kind = "letter"
                     THEN on_pickup_letter_result(PlayerNow, o.letter)
                     ELSE ret
    /\ UNCHANGED <<frame, keys, delta, static_objects, level_letters,
                   gravity, worm, update_calls>>

\* Player.update, line 180
MoveStep ==
    /\ pc = "move"
    /\ PlayerBecomes(handle_movement(PlayerNow, keys, static_objects))
    /\ pc' = "timer"
    /\ op' = "handle_movement"
    /\ UNCHANGED <<frame, keys, delta, scan_i, static_objects,
                   interactable_objects, arg, ret, level_letters,
                   gravity, worm, update_calls>>

\* Player.update, lines 183-187
InvincibilityTimer(p, d) ==
    IF p.time_since_hit < invincibility_time
    THEN [p EXCEPT !.time_since_hit = @ + d]
    ELSE [p EXCEPT !.bounce_velocity_x = 0, !.time_since_hit = 0]

\* faulty variant: the knockback does not override the input
BounceOverride_Skipped(p) == p

\* Player.update, lines 189-190
BounceOverride(p) ==
    IF p.bounce_velocity_x # 0
    THEN [p EXCEPT !.velocity.x = p.bounce_velocity_x]
    ELSE p

TimerStep ==
    /\ pc = "timer"
    /\ PlayerBecomes(BounceOverride(InvincibilityTimer(PlayerNow, delta)))
    /\ pc' = "physics"
    /\ op' = "invincibility"
    /\ UNCHANGED <<frame, keys, delta, scan_i, static_objects,
                   interactable_objects, arg, ret, level_letters,
                   gravity, worm, update_calls>>

\* Player.update, line 193: super().update(delta, game_world)
PhysicsStep ==
    /\ pc = "physics"
    /\ LET e == MovingObject_update(PlayerEntity, delta, static_objects)
       IN  PlayerBecomes([PlayerNow EXCEPT !.rect = e.rect,
                                           !.velocity = e.velocity,
                                           !.has_collided = e.has_collided])
    /\ pc' = "frame"
    /\ op' = "MovingObject.update"
    /\ UNCHANGED <<frame, keys, delta, scan_i, static_objects,
                   interactable_objects, arg, ret, level_letters,
                   gravity, worm, update_calls>>

\* the game loop reports that the player left the level
FellOutOfBounds ==
    /\ pc = "frame"
    /\ events < MaxDeathEvents
    /\ PlayerBecomes(on_fell_out_of_bounds(PlayerNow))
    /\ op' = "on_fell_out_of_bounds"
    /\ UNCHANGED <<pc, frame, keys, delta, scan_i, static_objects,
                   interactable_objects, arg, ret, level_letters,
                   gravity, worm, update_calls>>

Next ==
    \/ FrameStart
    \/ ScanStep
    \/ MoveStep
    \/ TimerStep
    \/ PhysicsStep
    \/ FellOutOfBounds

Spec == Init /\ [][Next]_vars

(***************************************************************************)
(* The collision specification: one interaction scan of a player that is   *)
(* somewhere around the level's enemy, with any of the vertical velocities *)
(* that gravity, a jump, a knockback or a stomp produce.                   *)
(***************************************************************************)
CollideVelocitiesY == {-400, -300, -50, 0, 50, 100}

CollideKnockbacks ==
    { [bounce |-> 0, since |-> 0], [bounce |-> 0, since |-> 10],
      [bounce |-> 250, since |-> 10], [bounce |-> 0, since |-> 80] }

\* a second letter of the level, away from the player
FarLetter ==
    [id |-> 3, kind |-> "letter", rect |-> Rectangle(200, 85, 8, 8),
     letter |-> "U", current_direction |-> 1]

\* what the player holds: nothing, or the five letters of BABEL
CollideLetters == { <<>>, <<"B", "A", "B", "E", "L">> }

InitCollide ==
    /\ HarnessInit
    /\ pc = "scan"
    /\ state = "IDLE" /\ hitbox = "default" /\ has_collided = FALSE
    /\ current_direction = 1 /\ letters_collected \in CollideLetters
    /\ NothingUnlocked
    /\ player_lives = InitialLives /\ active_animation = "idle"
    /\ \E vy \in CollideVelocitiesY, k \in CollideKnockbacks :
          /\ velocity = [x |-> k.bounce, y |-> vy]
          /\ bounce_velocity_x = k.bounce
          /\ time_since_hit = k.since
    /\ \E px \in {100, 120}, py \in (30..45) \cup {80} :
          rect = Rectangle(px, py, HitboxSize("default").w,
                           HitboxSize("default").h)
    /\ static_objects = LevelStatics
    /\ interactable_objects
          \in { LevelInteractables, SubSeq(LevelInteractables, 2, 2),
                <<FarLetter>> \o LevelInteractables }
    /\ level_letters = {}
    /\ gravity = TRUE
    /\ worm = Worm(WormStart)

NextCollide == ScanStep

SpecCollide == InitCollide /\ [][NextCollide]_vars

(***************************************************************************)
(* The knockback specification: the frame loop, frame after frame without  *)
(* end, of a player that stands in a shaft one player wide with an enemy   *)
(* at its feet.  The game loop calls Player.update once per frame for as   *)
(* long as the game runs, so a frame that has started runs to its end and  *)
(* another one follows.                                                    *)
(***************************************************************************)
\* the shaft: floor, left wall, right wall and ceiling around x = 100..110,
\* y = 0..100, each thicker than any move of one frame
ShaftStatics ==
    << Rectangle(-300, 100, 810, 400), Rectangle(-300, -400, 400, 500),
       Rectangle(110, -400, 400, 500), Rectangle(-300, -400, 810, 400) >>

ShaftInteractables ==
    << [id |-> 1, kind |-> "enemy", rect |-> Rectangle(100, 66, 10, 34),
        letter |-> "", current_direction |-> 1] >>

ShaftKeySnapshots == { {}, {"left"}, {"right"} }

InitKnock ==
    /\ PlayerConstructed
    /\ NothingUnlocked
    /\ HarnessInit
    /\ pc = "frame"
    /\ rect = Rectangle(100, 80, HitboxSize("default").w,
                        HitboxSize("default").h)
    /\ static_objects = ShaftStatics
    /\ interactable_objects = ShaftInteractables
    /\ level_letters = {}
    /\ worm = Worm(WormStart)

\* the game loop enters Player.update(delta, game_world) for the next frame
NextFrame ==
    /\ pc = "frame"
    /\ \E ks \in ShaftKeySnapshots, d \in Deltas :
          /\ keys' = ks
          /\ delta' = d
    /\ scan_i' = 1
    /\ pc' = IF Len(interactable_objects) = 0 THEN "move" ELSE "scan"
    /\ op' = "update"
    /\ update_calls' = do_updates
    /\ PlayerBecomes(PlayerNow)
    /\ UNCHANGED <<frame, static_objects, interactable_objects, arg, ret,
                   level_letters, gravity, worm>>

NextKnock ==
    \/ NextFrame
    \/ ScanStep
    \/ MoveStep
    \/ TimerStep
    \/ PhysicsStep

SpecKnock == InitKnock /\ [][NextKnock]_vars /\ WF_vars(NextKnock)

(***************************************************************************)
(* The worm specification: a worm on a floor between two walls, on which   *)
(* Worm.update is called again and again with a delta above 0, as a world  *)
(* that updates its enemies does once per frame.                           *)
(***************************************************************************)
\* the floor, the left wall (up to x = 0) and the right wall (from x = 120),
\* each thicker than any move of one update
WormStatics ==
    << Rectangle(-400, 100, 920, 400), Rectangle(-400, -400, 400, 500),
       Rectangle(120, -400, 400, 500) >>

\* where the worm starts: near the left wall, in the middle, near the right
\* wall, always on the floor
WormStarts ==
    { [x |-> 10, y |-> 92], [x |-> 50, y |-> 92], [x |-> 100, y |-> 92] }

InitWorm ==
    /\ PlayerConstructed
    /\ NothingUnlocked
    /\ HarnessInit
    /\ pc = "frame"
    /\ rect = Rectangle(30, 0, HitboxSize("default").w,
                        HitboxSize("default").h)
    /\ static_objects = WormStatics
    /\ interactable_objects = <<>>
    /\ level_letters = {}
    /\ \E position \in WormStarts : worm = Worm(position)

\* a call of Worm.update(delta, game_world)
WormUpdateCall ==
    /\ \E d \in Deltas :
          /\ worm' = Worm_update(worm, d, static_objects)
          /\ delta' = d
    /\ op' = "Worm.update"
    /\ UNCHANGED <<pc, frame, keys, scan_i, playerVars, static_objects,
                   interactable_objects, events, arg, ret, hit_calls,
                   level_letters, gravity, update_calls>>

NextWorm == WormUpdateCall

SpecWorm == InitWorm /\ [][NextWorm]_vars /\ WF_vars(NextWorm)

(***************************************************************************)
(* Claims about on_pickup_letter, checked under SpecLetters.               *)
(***************************************************************************)
PickupStep == op' = "on_pickup_letter"

\* C3: from an empty collection J, U, M, P in that order unlocks jump (D, U,
\* C, K unlocks crouch) and empties the collection; after the prefix J, U, M
\* nothing is unlocked and the collection is exactly [J, U, M]; an ability is
\* unlocked only by a call that completes the exact whole word, so X, J, U,
\* M, P unlocks nothing.
C3_ExactSequenceUnlocks ==
    [][PickupStep =>
        /\ (letters_collected = <<"J", "U", "M">> /\ arg' = "P")
              => (is_jump_unlocked' /\ letters_collected' = <<>>)
        /\ (letters_collected = <<"D", "U", "C">> /\ arg' = "K")
              => (is_crouch_unlocked' /\ letters_collected' = <<>>)
        /\ (letters_collected = <<"J", "U">> /\ arg' = "M")
              => /\ letters_collected' = <<"J", "U", "M">>
                 /\ UNCHANGED <<is_jump_unlocked, is_crouch_unlocked>>
        /\ (letters_collected = <<"X", "J", "U", "M">> /\ arg' = "P")
              => /\ letters_collected' = <<"X", "J", "U", "M", "P">>
                 /\ UNCHANGED <<is_jump_unlocked, is_crouch_unlocked>>
        /\ (is_jump_unlocked' # is_jump_unlocked)
              => (letters_collected = <<"J", "U", "M">> /\ upper(arg') = "P")
        /\ (is_crouch_unlocked' # is_crouch_unlocked)
              => (letters_collected = <<"D", "U", "C">> /\ upper(arg') = "K")
    ]_vars

\* the call with P after J, U, M has unlocked jump and emptied the collection
C3_Witness ==
    /\ op = "on_pickup_letter"
    /\ arg = "P"
    /\ ret = TRUE
    /\ is_jump_unlocked
    /\ ~is_crouch_unlocked
    /\ letters_collected = <<>>

\* C4: letters_collected never holds more than 5 letters, and a call made
\* when 5 letters are collected returns False and changes neither the
\* collection nor the unlock flags.
C4_CapacityFive ==
    /\ [](Len(letters_collected) <= 5)
    /\ [][(PickupStep /\ Len(letters_collected) = 5)
            => /\ ret' = FALSE
               /\ UNCHANGED <<letters_collected, is_jump_unlocked,
                              is_crouch_unlocked>>]_vars

\* a sixth pickup has been rejected
C4_Witness ==
    /\ op = "on_pickup_letter"
    /\ ret = FALSE
    /\ Len(letters_collected) = 5

\* C5: whenever an append makes the upper-cased collection equal to JUMP,
\* DUCK or BABEL, the collection is empty when the call returns.
C5_TargetWordClears ==
    [][(PickupStep /\ Len(letters_collected) < 5
          /\ JoinUpper(Append(letters_collected, arg'))
                \in {WordJUMP, WordDUCK, WordBABEL})
        => letters_collected' = <<>>]_vars

(***************************************************************************)
(* Claims about MovingObject, checked under SpecPhys.                      *)
(***************************************************************************)
UpdateStep == op' = "MovingObject.update"

\* C9: with a single static collider, an entity whose rectangle does not
\* overlap it before MovingObject.update and whose velocity lies along one
\* axis does not overlap it after the update, for any delta >= 0.
C9_NoPenetration ==
    [][(/\ UpdateStep
        /\ Len(static_objects) = 1
        /\ ~colliderect(rect, static_objects[1])
        /\ (velocity.x = 0 \/ velocity.y = 0))
        => ~colliderect(rect', static_objects[1])]_vars

\* the rectangle r shifted down by one pixel overlaps the rectangle c, written
\* out on the coordinates
ProbeOverlaps(r, c) ==
    /\ r.w > 0 /\ r.h > 0 /\ c.w > 0 /\ c.h > 0
    /\ r.x < c.x + c.w /\ c.x < r.x + r.w
    /\ r.y + 1 < c.y + c.h /\ c.y < r.y + 1 + r.h

\* C10: is_grounded is true exactly when the rectangle moved down by one
\* pixel overlaps some static collider, is false when every collider starts 2
\* or more pixels below the rectangle's bottom edge, and changes neither the
\* entity nor the list.
C10_GroundProbe ==
    /\ [](op = "is_grounded" =>
            /\ ret = (\E i \in 1..Len(static_objects) :
                        ProbeOverlaps(rect, static_objects[i]))
            /\ (\A i \in 1..Len(static_objects) :
                    static_objects[i].y >= rect.y + rect.h + 2) => ret = FALSE)
    /\ [][op' = "is_grounded" =>
            UNCHANGED <<rect, velocity, has_collided, static_objects>>]_vars

\* the entity stands on the collider and is_grounded has returned True
C10_Witness ==
    /\ op = "is_grounded"
    /\ ret = TRUE
    /\ ~does_collide(rect, static_objects)
    /\ rect.y + rect.h = static_objects[1].y

(***************************************************************************)
(* Claims about handle_movement and the hit guard, checked under Spec.     *)
(***************************************************************************)
MovementStep == op' = "handle_movement"

\* the one-pixel ground probe of the player before the step
Grounded == \E i \in 1..Len(static_objects) : ProbeOverlaps(rect, static_objects[i])

\* the state the fixed-priority transition function of the claim selects
TargetState ==
    IF Grounded /\ is_jump_unlocked /\ "jump" \in keys THEN "JUMP"
    ELSE IF Grounded /\ is_crouch_unlocked /\ "crouch" \in keys THEN "DUCK"
    ELSE IF ~Grounded /\ velocity.y <= 0 THEN "JUMP"
    ELSE IF ~Grounded THEN "FALL"
    ELSE IF "left" \in keys \/ "right" \in keys THEN "RUN"
    ELSE "IDLE"

\* the velocity and direction the transition function of the claim selects
TargetVelocityX ==
    IF "left" \in keys THEN -speed_x
    ELSE IF "right" \in keys THEN speed_x
    ELSE IF Grounded THEN 0
    ELSE velocity.x

TargetVelocityY ==
    IF Grounded /\ is_jump_unlocked /\ "jump" \in keys
    THEN -jump_force ELSE velocity.y

TargetDirection ==
    IF "left" \in keys THEN -1
    ELSE IF "right" \in keys THEN 1
    ELSE current_direction

\* the standing rectangle at the player's place overlaps a static collider
StandingBlocked ==
    \E i \in 1..Len(static_objects) :
        colliderect(Rectangle(rect.x, rect.y, 10, 20), static_objects[i])

\* C1 as stated: for a non-DEAD player handle_movement sets state, velocity
\* and direction by the fixed-priority transition function; grounded with no
\* keys gives IDLE, left+jump grounded with jump unlocked gives JUMP.
C1_TransitionFunction ==
    [][(MovementStep /\ state # "DEAD")
        => /\ state' = TargetState
           /\ velocity' = [x |-> TargetVelocityX, y |-> TargetVelocityY]
           /\ current_direction' = TargetDirection]_vars

\* C1 as amended: the same, except that a player in DUCK whose selected
\* state is not DUCK stays in DUCK when the standing hitbox is blocked.
C1_TransitionFunctionUnlessBlocked ==
    [][(MovementStep /\ state # "DEAD")
        => /\ state' = IF state = "DUCK" /\ TargetState # "DUCK"
                          /\ StandingBlocked
                       THEN "DUCK" ELSE TargetState
           /\ velocity' = [x |-> TargetVelocityX, y |-> TargetVelocityY]
           /\ current_direction' = TargetDirection]_vars

\* left+jump on the ground with jump unlocked has given JUMP
C1_Witness ==
    /\ op = "handle_movement"
    /\ keys = {"left", "jump"}
    /\ state = "JUMP"
    /\ velocity = [x |-> -speed_x, y |-> -jump_force]
    /\ current_direction = -1

\* C2: once state is DEAD it stays DEAD through every later step, and
\* handle_movement changes neither velocity, direction, hitbox nor state.
C2_DeadIsTerminal ==
    [][state = "DEAD"
        => /\ state' = "DEAD"
           /\ MovementStep
                => UNCHANGED <<velocity, current_direction, hitbox, rect,
                               state>>]_vars

\* handle_movement has run on a dead player while keys were held
C2_Witness ==
    /\ op = "handle_movement"
    /\ state = "DEAD"
    /\ "left" \in keys

\* C6: on_hit_by_enemy applies knockback only when time_since_hit is 0; a
\* call made while time_since_hit is not 0 changes neither
\* bounce_velocity_x, velocity.y, the lives nor the state.
C6_HitOnlyWhenTimerZero ==
    [][(op' = "Enemy.on_collide" /\ hit_calls' = 1 /\ time_since_hit # 0)
        => /\ bounce_velocity_x' = bounce_velocity_x
           /\ velocity'.y = velocity.y
           /\ player_lives' = player_lives
           /\ state' = state]_vars

(***************************************************************************)
(* Claims about Enemy.on_collide.                                          *)
(***************************************************************************)
\* the object the scan step is looking at
Scanned == interactable_objects[scan_i]

EnemyCollideStep == op' = "Enemy.on_collide"

\* C7: with velocity.y < 0 and the player's bottom at most 5 below the
\* enemy's top the enemy leaves the interactable list, bounce_velocity_x is
\* 0, velocity.y is the upward bounce and on_hit_by_enemy is not called; in
\* every other case the enemy stays and on_hit_by_enemy is called once.
C7_StompOrHit ==
    [][EnemyCollideStep
        => IF velocity.y < 0 /\ rect.y + rect.h <= Scanned.rect.y + 5
           THEN /\ \A i \in 1..Len(interactable_objects') :
                      interactable_objects'[i] # Scanned
                /\ Len(interactable_objects') = Len(interactable_objects) - 1
                /\ bounce_velocity_x' = 0
                /\ velocity'.y = -250
                /\ hit_calls' = 0
           ELSE /\ interactable_objects' = interactable_objects
                /\ hit_calls' = 1]_vars

\* an enemy has been stomped
C7_Witness ==
    /\ op = "Enemy.on_collide"
    /\ hit_calls = 0
    /\ velocity.y = -250
    /\ \A i \in 1..Len(interactable_objects) :
          interactable_objects[i].kind # "enemy"

\* C8: a player that moves the way gravity accelerates it and overlaps an
\* enemy with its bottom at most 5 below the enemy's top stomps it: the
\* enemy is removed and on_hit_by_enemy is not called.
C8_DescendingStomps ==
    [][(/\ pc = "scan"
        /\ Scanned.kind = "enemy"
        /\ colliderect(rect, Scanned.rect)
        /\ velocity.y * GravityStep > 0
        /\ rect.y + rect.h <= Scanned.rect.y + 5)
        => /\ \A i \in 1..Len(interactable_objects') :
                 interactable_objects'[i] # Scanned
           /\ hit_calls' = 0]_vars


(***************************************************************************)
(* Claims about the interaction scan of a frame, checked under Spec.       *)
(***************************************************************************)
\* one iteration of the loop of do_interaction
ScanIteration == pc = "scan" /\ scan_i' = scan_i + 1

\* C11: in the interaction scan of a frame on_collide is invoked, in list
\* order, for every object of the interactable list that intersects the
\* player's rectangle, also when an earlier object of the scan removes itself
\* from the list in its callback: whenever the object that follows the
\* scanned one in the list touches the player, the loop goes on and the next
\* object it visits is that one.
C11_ScanReachesEveryTouched ==
    [][ScanIteration /\ scan_i < Len(interactable_objects)
                     /\ colliderect(rect, interactable_objects[scan_i + 1].rect)
          => /\ pc' = "scan"
             /\ interactable_objects'[scan_i']
                    = interactable_objects[scan_i + 1]]_vars

(***************************************************************************)
(* Claims about the hitbox of the player, checked under Spec.              *)
(***************************************************************************)
\* C12: the player cannot stand up into a collider: when handle_movement
\* runs in DUCK and the transition function selects another state, then if
\* the standing rectangle at the player's place overlaps a static collider
\* the hitbox stays "crouch", the rectangle and the state stay as they are
\* and on_state_changed is not fired (the animation is untouched); if nothing
\* obstructs the standing rectangle the hitbox becomes "default" and the
\* state becomes the selected one.
C12_NoUncrouchWhenBlocked ==
    [][(MovementStep /\ state = "DUCK" /\ TargetState # "DUCK")
        => IF StandingBlocked
           THEN /\ hitbox' = "crouch"
                /\ rect' = rect
                /\ state' = "DUCK"
                /\ active_animation' = active_animation
           ELSE /\ hitbox' = "default"
                /\ rect' = Rectangle(rect.x, rect.y, 10, 20)
                /\ state' = TargetState
                /\ active_animation' = AnimationOf(TargetState)]_vars

\* handle_movement has run without the crouch key and left the player in
\* DUCK: the standing rectangle was blocked
C12_Witness ==
    /\ op = "handle_movement"
    /\ "crouch" \notin keys
    /\ state = "DUCK"
    /\ hitbox = "crouch"

\* C13: state and hitbox are in lockstep: after every state change, by
\* handle_movement or by on_player_death, and at the end of every frame the
\* active hitbox is "crouch" if and only if the state is DUCK, and "default"
\* in every other state, DEAD included.
C13_HitboxFollowsState ==
    pc \in {"frame", "timer"}
        => /\ hitbox \in {"crouch", "default"}
           /\ hitbox = "crouch" <=> state = "DUCK"

(***************************************************************************)
(* Claims about the knockback of the player.                               *)
(***************************************************************************)
\* the step of Player.update that runs the invincibility timer
TimerTick == op' = "invincibility"

\* the step of Player.update that integrates the velocity
PhysicsTick == pc = "physics" /\ op' = "MovingObject.update"

\* the timer step of the frame in which time_since_hit has reached
\* invincibility_time resets the knockback
KnockbackReset ==
    /\ TimerTick
    /\ time_since_hit >= invincibility_time
    /\ bounce_velocity_x' = 0
    /\ time_since_hit' = 0

\* Enemy.on_collide has taken its stomp branch: no hit, the enemy removed
StompClears ==
    /\ op' = "Enemy.on_collide"
    /\ hit_calls' = 0
    /\ Len(interactable_objects') = Len(interactable_objects) - 1
    /\ bounce_velocity_x' = 0

\* Enemy.on_collide has hit the player again
HitAgain ==
    /\ op' = "Enemy.on_collide"
    /\ hit_calls' = 1
    /\ bounce_velocity_x' # 0

\* C14 as stated: once a live hit has set bounce_velocity_x, the velocity.x
\* that every physics step uses is bounce_velocity_x, whatever the input, and
\* bounce_velocity_x stays as it is until the frame in which time_since_hit
\* has reached invincibility_time, whose timer step resets both to 0.
C14_KnockbackWindow ==
    [][/\ (PhysicsTick /\ bounce_velocity_x # 0)
            => velocity.x = bounce_velocity_x
       /\ (bounce_velocity_x # 0 /\ bounce_velocity_x' # bounce_velocity_x)
            => KnockbackReset]_vars

\* C14 as amended: while bounce_velocity_x is nonzero the velocity.x that
\* every physics step uses is bounce_velocity_x, whatever the input;
\* bounce_velocity_x leaves its value only by the reset of the frame in which
\* time_since_hit has reached invincibility_time (both become 0), by a stomp,
\* which clears it, or by another hit; the timer step of a frame that finds
\* time_since_hit at invincibility_time or above resets both; and with
\* delta > 0 in every frame a nonzero bounce_velocity_x is eventually 0 again.
C14_KnockbackWindowUnlessStomp ==
    /\ [][/\ (PhysicsTick /\ bounce_velocity_x # 0)
               => velocity.x = bounce_velocity_x
          /\ (bounce_velocity_x # 0 /\ bounce_velocity_x' # bounce_velocity_x)
               => (KnockbackReset \/ StompClears \/ HitAgain)
          /\ (TimerTick /\ time_since_hit >= invincibility_time)
               => KnockbackReset]_vars
    /\ (bounce_velocity_x # 0) ~> (bounce_velocity_x = 0)

\* a physics step has used the knockback velocity while "left" was held
C14_Witness ==
    /\ op = "MovingObject.update"
    /\ keys = {"left"}
    /\ bounce_velocity_x = KnockbackSpeed
    /\ velocity.x = KnockbackSpeed
    /\ time_since_hit < invincibility_time

(***************************************************************************)
(* Claims about the physics update, checked under SpecPhys and Spec.       *)
(***************************************************************************)
\* C15: the gravity step of MovingObject.update changes velocity.y only for
\* an entity with gravity, for which it adds the gravity increment up to the
\* maximal fall speed; for an entity without gravity it leaves velocity.y
\* unchanged, so that after the update velocity.y is what it was, or 0 when
\* the vertical move was blocked.
C15_GravityOnlyWithFlag ==
    [][(UpdateStep /\ ~gravity) => velocity'.y \in {velocity.y, 0}]_vars

(***************************************************************************)
(* Claims about Worm.update, checked under SpecWorm.                       *)
(***************************************************************************)
WormStep == op' = "Worm.update"

\* the way the worm has travelled when the update ends, in hundredths of a
\* pixel, if its horizontal move takes place
TravelledAfter == worm.distance + WormSpeedX * delta'

\* the horizontal move of the update did not take place
MoveBlocked == worm'.rect.x = worm.rect.x

\* the update turns the worm round
WormFlips == worm'.current_direction = -worm.current_direction

Enemies == SelectSeq(interactable_objects, LAMBDA o : o.kind = "enemy")

\* C17: in every frame the update step of the world calls update once on the
\* player and then once on every enemy of the world, in that order: when a
\* frame has ended, the entities updated in it are the player followed by
\* the enemies.
C17_EveryEntityUpdated ==
    (pc = "frame" /\ frame > 0)
        => update_calls
             = <<PlayerId>> \o [i \in 1..Len(Enemies) |-> Enemies[i].id]

(***************************************************************************)
(* Claims about LetterPickUp.on_collide, checked under SpecCollide.        *)
(***************************************************************************)
LetterCollideStep == op' = "LetterPickUp.on_collide"

\* the list without its element at index k
WithoutIndex(list, k) ==
    [i \in 1..(Len(list) - 1) |-> IF i < k THEN list[i] ELSE list[i + 1]]

\* C18: LetterPickUp.on_collide reports its letter to the player through
\* on_pickup_letter, which takes it if fewer than 5 letters are held and
\* refuses it otherwise, and removes exactly the pickup from the
\* interactable list: the other elements stay, in their order, whether the
\* letter was taken or refused.
C18_PickupRemovesItself ==
    [][LetterCollideStep
        => /\ arg' = Scanned.letter
           /\ ret' = (Len(letters_collected) < MaxLetters)
           /\ ~ret' => letters_collected' = letters_collected
           /\ ret' => letters_collected'
                        \in { Append(letters_collected, Scanned.letter), <<>> }
           /\ interactable_objects'
                = WithoutIndex(interactable_objects, scan_i)]_vars

\* a pickup between two other objects was touched while five letters were
\* held: the letter was refused and the pickup is gone
C18_Witness ==
    /\ op = "LetterPickUp.on_collide"
    /\ ret = FALSE
    /\ Len(letters_collected) = MaxLetters
    /\ interactable_objects = <<FarLetter, LevelInteractables[2]>>

\* the horizontal preview of the physics step overlaps a static collider
HorizontalMoveBlocked ==
    \E i \in 1..Len(static_objects) :
        colliderect(PreviewRectX(rect, velocity.x, delta), static_objects[i])

\* C19: has_collided is a flag of the frame: after each MovingObject.update
\* it is true if and only if the horizontal move of that update was blocked
\* by a static collider, whatever happened in earlier frames.
C19_HasCollidedPerFrame ==
    [][PhysicsTick => (has_collided' <=> HorizontalMoveBlocked)]_vars

C21_DeathPostedOnce ==
    [][(state = "DEAD" /\ op' # "on_fell_out_of_bounds")
        => events' = events]_vars

====
